---- MODULE Spec2Model ----
(***************************************************************************)
(* Model of the prnj_dev_branch_and_commit_message git hooks               *)
(* (src/prnj_dev_branch_and_commit_message/__main__.py).                   *)
(*                                                                         *)
(* Text (branch names, the commit message file) is a sequence of one       *)
(* character strings, so that prefix tests, regular expression matches and *)
(* the splice of the message are computed character by character, as the   *)
(* code computes them.  A state is one working tree: the checked-out       *)
(* branch, the content of the commit message file, and the outcome of the  *)
(* last hook invocation.  The two hooks (check-branch, check-message) may  *)
(* be invoked any number of times, each time with its own environment.     *)
(***************************************************************************)
EXTENDS Naturals, Sequences, FiniteSets

VARIABLES
    branchName,   \* what `git rev-parse --abbrev-ref HEAD` prints, stripped
    file,         \* content of the commit message file
    lastCmd,      \* "none" | "check-branch" | "check-message"
    mergeLike,    \* last invocation: get_message_source().is_merge
    autoAppend,   \* last invocation: PRNJ_BRANCH_COMMIT_MSG_AUTO_APPEND != "0"
    exitCode,     \* last invocation: 0, or 1 when a ClickException was raised
    raised,       \* last invocation: which ClickException ("none" when none)
    wrote,        \* last invocation: the message file was opened for writing
    fileBefore    \* last invocation: content of the message file when it began

vars == <<branchName, file, lastCmd, mergeLike, autoAppend, exitCode, raised,
          wrote, fileBefore>>

-----------------------------------------------------------------------------
(* Characters and text helpers                                             *)

NL == "\n"

Digits == {"0", "1", "2", "3", "4", "5", "6", "7", "8", "9"}

\* \w of Python's re on str: letters, digits and the underscore (the letters
\* are those the model's texts use).
WordChars ==
    Digits \cup {"_"} \cup
    {"a", "b", "c", "d", "e", "f", "g", "h", "i", "j", "k", "l", "m", "n", "o",
     "p", "q", "r", "s", "t", "u", "v", "w", "x", "y", "z",
     "D", "E", "V", "P", "R", "N", "J", "W"}

None == <<>>

Min(S) == CHOOSE x \in S : \A y \in S : x <= y

\* p occurs in s at position i
At(s, i, p) ==
    /\ i >= 1
    /\ i + Len(p) - 1 <= Len(s)
    /\ SubSeq(s, i, i + Len(p) - 1) = p

\* str.startswith
StartsWith(s, p) == At(s, 1, p)

\* length of the longest run of characters of C in s from position i
RECURSIVE Run(_, _, _)
Run(s, i, C) ==
    IF i >= 1 /\ i <= Len(s) /\ s[i] \in C THEN 1 + Run(s, i + 1, C) ELSE 0

RECURSIVE Join(_, _)
Join(parts, sep) ==
    IF Len(parts) = 0 THEN <<>>
    ELSE IF Len(parts) = 1 THEN parts[1]
    ELSE parts[1] \o sep \o Join(Tail(parts), sep)

RECURSIVE Rep(_, _)
Rep(c, n) == IF n = 0 THEN <<>> ELSE <<c>> \o Rep(c, n - 1)

-----------------------------------------------------------------------------
(* get_branch: the branch name grammar                                     *)

WipHackPrefixes ==
    { <<"w", "i", "p", "-">>, <<"w", "i", "p", "/">>,
      <<"h", "a", "c", "k", "-">>, <<"h", "a", "c", "k", "/">>,
      <<"p", "o", "c", "-">>, <<"p", "o", "c", "/">> }

HotfixWord == <<"h", "o", "t", "f", "i", "x">>
ProjPrefix == <<"p", "r", "o", "j", "/">>
PrnjPrefix == <<"P", "R", "N", "J", "-">>
DevWord == <<"D", "E", "V">>
DashDev == <<"-">> \o DevWord

\* HOTFIX = (?P<hotfix>hotfix[-/]) at the start of s: the length matched, 0 if none
HOTFIX(s) ==
    IF StartsWith(s, HotfixWord \o <<"-">>) \/ StartsWith(s, HotfixWord \o <<"/">>)
    THEN Len(HotfixWord) + 1 ELSE 0

\* PROJ = (?P<proj>proj/) at the start of s: the length matched, 0 if none
PROJ(s) == IF StartsWith(s, ProjPrefix) THEN Len(ProjPrefix) ELSE 0

\* PRNJ = (?P<prnj>PRNJ-\d+) at position i, taking k digits
PRNJ(s, i, k) ==
    /\ At(s, i, PrnjPrefix)
    /\ k >= 1
    /\ k <= Run(s, i + Len(PrnjPrefix), Digits)

\* -DEV = -(?P<dev>DEV(?:-\d+)?) at position j, taking m digits (m = 0: no number)
DEV(s, j, m) ==
    /\ At(s, j, DashDev)
    /\ \/ m = 0
       \/ /\ m >= 1
          /\ At(s, j + Len(DashDev), <<"-">>)
          /\ m <= Run(s, j + Len(DashDev) + 1, Digits)

\* position after a -DEV segment of m digits that starts at j
DevEnd(j, m) == j + Len(DashDev) + (IF m = 0 THEN 0 ELSE 1 + m)

\* -\w+ at position e
DescriptionAt(s, e) == At(s, e, <<"-">>) /\ Run(s, e + 1, WordChars) >= 1

\* $ at position e (the name comes stripped, so it holds no newline)
EndAt(s, e) == e = Len(s) + 1

\* what follows PRNJ(?:-DEV)? in the two patterns of get_branch
TailAt(s, e, tail) ==
    IF tail = "description" THEN DescriptionAt(s, e) ELSE EndAt(s, e)

\* The ways -(DEV(?:-\d+)?) followed by the tail matches at position j: the
\* numbers m of digits taken by the DEV number (0: the marker alone)
DevParses(s, j, tail) ==
    { m \in 0..Run(s, j + Len(DashDev) + 1, Digits) :
        DEV(s, j, m) /\ TailAt(s, DevEnd(j, m), tail) }

\* The ways PRNJ(?:-DEV)? matches from position i: <<k, d, m>> with k digits of
\* the PRNJ number, d = 1 when the optional DEV group takes part, m digits of
\* the DEV number; the rest of the pattern (tail) must match where it ends.
CoreParses(s, i, tail) ==
    UNION { LET j == i + Len(PrnjPrefix) + k
            IN  { <<k, 1, m>> : m \in DevParses(s, j, tail) }
                \cup (IF TailAt(s, j, tail) THEN { <<k, 0, 0>> } ELSE {}) :
            k \in { n \in 1..Run(s, i + Len(PrnjPrefix), Digits) : PRNJ(s, i, n) } }

\* The parse a backtracking matcher finds first: greedy \d+ of PRNJ, then the
\* optional group taken, then its greedy \d+.
Before(p, q) ==
    \/ p[1] > q[1]
    \/ p[1] = q[1] /\ p[2] > q[2]
    \/ p[1] = q[1] /\ p[2] = q[2] /\ p[3] >= q[3]

FirstParse(P) == CHOOSE p \in P : \A q \in P : Before(p, q)

\* the groups of a match whose PRNJ starts at position start and parses as p
Groups(s, start, hotfix, proj, p) ==
    [matched |-> TRUE, hotfix |-> hotfix, proj |-> proj,
     prnj |-> SubSeq(s, start, start + Len(PrnjPrefix) + p[1] - 1),
     dev |-> IF p[2] = 1
             THEN SubSeq(s, start + Len(PrnjPrefix) + p[1] + 1,
                         DevEnd(start + Len(PrnjPrefix) + p[1], p[3]) - 1)
             ELSE None]

\* the match of the grammar with PRNJ at position start, if there is one
MatchFrom(s, start, hotfix, proj, P) ==
    IF P = {}
    THEN [matched |-> FALSE, hotfix |-> FALSE, proj |-> FALSE,
          prnj |-> None, dev |-> None]
    ELSE Groups(s, start, hotfix, proj, FirstParse(P))

\* re.match(rf"({HOTFIX}|{PROJ})?{PRNJ}(?:-{DEV})?-\w+", branch_name): the
\* groups of the match, or matched = FALSE.  The optional prefix group is tried
\* with hotfix, then with proj, then left out.
BranchMatch(s) ==
    IF HOTFIX(s) > 0 /\ CoreParses(s, HOTFIX(s) + 1, "description") # {}
    THEN MatchFrom(s, HOTFIX(s) + 1, TRUE, FALSE,
                   CoreParses(s, HOTFIX(s) + 1, "description"))
    ELSE IF PROJ(s) > 0 /\ CoreParses(s, PROJ(s) + 1, "description") # {}
    THEN MatchFrom(s, PROJ(s) + 1, FALSE, TRUE,
                   CoreParses(s, PROJ(s) + 1, "description"))
    ELSE MatchFrom(s, 1, FALSE, FALSE, CoreParses(s, 1, "description"))

\* found_prnj = bool(re.search(PRNJ, branch_name))
FoundPrnj(s) == \E i \in 1..Len(s) : PRNJ(s, i, 1)

\* no_description = bool(re.match(rf"({HOTFIX}|{PROJ})?{PRNJ}(?:-{DEV})?$", branch_name))
NoDescription(s) ==
    \/ HOTFIX(s) > 0 /\ CoreParses(s, HOTFIX(s) + 1, "end") # {}
    \/ PROJ(s) > 0 /\ CoreParses(s, PROJ(s) + 1, "end") # {}
    \/ CoreParses(s, 1, "end") # {}

\* the parts of "Branch name does not follow the standard: ..."
ErrorMsg(s) ==
    (IF ~FoundPrnj(s) THEN <<"could not find PRNJ-number">> ELSE <<>>)
    \o (IF NoDescription(s) THEN <<"could not find a branch description">>
        ELSE IF FoundPrnj(s) THEN <<"branch is wrongly formatted">>
        ELSE <<>>)

\* class Branch
Branch(name, wip, hotfix, proj, prnj, dev) ==
    [branch_name |-> name, is_wip_hack |-> wip, is_hotfix |-> hotfix,
     is_proj |-> proj, prnj |-> prnj, dev |-> dev]

\* Branch.is_dev_without_number
IsDevWithoutNumber(branch) == branch.dev # None /\ branch.dev = DevWord

\* IsWipHack without the poc prefixes
IsWipHackNoPoc(s) ==
    \E p \in { q \in WipHackPrefixes : q[1] # "p" } : StartsWith(s, p)

\* branch_name.startswith(("wip-", "wip/", "hack-", "hack/", "poc-", "poc/"))
IsWipHack(s) == \E p \in WipHackPrefixes : StartsWith(s, p)

\* IsProjectParent with the test of the DEV section inverted
IsProjectParentInverted(m) == m.proj /\ m.dev # None

\* The project parent rule: a proj/ branch without a DEV section
IsProjectParent(m) == m.proj /\ m.dev = None

\* get_branch() from the match on: raised is "none" and branch the Branch
\* returned, or raised names the ClickException ("standard": the name does not
\* follow the standard; "project": commits to project branches are not allowed).
Classify(s, m) ==
    IF ~m.matched
    THEN [raised |-> "standard", error_msg |-> ErrorMsg(s),
          branch |-> Branch(s, FALSE, FALSE, FALSE, None, None)]
    ELSE IF IsProjectParent(m)
    THEN [raised |-> "project", error_msg |-> <<>>,
          branch |-> Branch(s, FALSE, FALSE, FALSE, None, None)]
    ELSE [raised |-> "none", error_msg |-> <<>>,
          branch |-> Branch(s, FALSE, m.hotfix, m.proj, m.prnj, m.dev)]

\* get_branch()
GetBranch(s) ==
    IF IsWipHack(s)
    THEN [raised |-> "none", error_msg |-> <<>>,
          branch |-> Branch(s, TRUE, FALSE, FALSE, None, None)]
    ELSE Classify(s, BranchMatch(s))

-----------------------------------------------------------------------------
(* CommitMessage: the split of the message text                            *)

ScissorsDashes == 24

\* "# ------------------------ >8 ------------------------"
Scissors ==
    <<"#", " ">> \o Rep("-", ScissorsDashes) \o <<" ", ">", "8", " ">>
    \o Rep("-", ScissorsDashes)

\* where ^ matches under re.MULTILINE: the start of the text and after each newline
LineStarts(s) == { i \in 1..Len(s) : i = 1 \/ s[i - 1] = NL }

\* bool(re.search("^" + pat, s, re.MULTILINE)); the patterns used hold no
\* character that is special in a regular expression
SearchLineStart(pat, s) == \E i \in LineStarts(s) : At(s, i, pat)

\* m.start(0) of the leftmost match of "^" + pat (0 when there is none)
FirstLineStart(pat, s) ==
    LET M == { i \in LineStarts(s) : At(s, i, pat) }
    IN  IF M = {} THEN 0 ELSE Min(M)

\* message.partition("\n"): <<head, below>>
Partition(message) ==
    LET N == { i \in 1..Len(message) : message[i] = NL }
    IN  IF N = {} THEN <<message, <<>>>>
        ELSE LET i == Min(N)
             IN  <<SubSeq(message, 1, i - 1), SubSeq(message, i + 1, Len(message))>>

\* branch.prnj and re.search("^" + branch.prnj, commit_msg_body, re.MULTILINE)
PrnjFound(branch, body) == branch.prnj # None /\ SearchLineStart(branch.prnj, body)

\* branch.dev and re.search("^" + branch.dev, commit_msg_body, re.MULTILINE)
DevFound(branch, body) == branch.dev # None /\ SearchLineStart(branch.dev, body)

\* CommitMessage.__post_init__
CommitMessage(branch, message) ==
    LET parts == Partition(message)
        below_subject == parts[2]
        break_location == FirstLineStart(Scissors, below_subject)
        body == IF break_location > 0
                THEN SubSeq(below_subject, 1, break_location - 1)
                ELSE below_subject
        rest == IF break_location > 0
                THEN SubSeq(below_subject, break_location, Len(below_subject))
                ELSE <<>>
    IN  [subject |-> parts[1], body |-> body, rest |-> rest,
         prnj_found |-> PrnjFound(branch, body),
         dev_found |-> DevFound(branch, body)]

-----------------------------------------------------------------------------
(* The inputs: branch names and message texts                              *)

MaxLines == 2

\* every sequence of 0..n elements of S
RECURSIVE SeqsUpTo(_, _)
SeqsUpTo(S, n) ==
    IF n = 0 THEN { <<>> }
    ELSE LET shorter == SeqsUpTo(S, n - 1)
         IN  shorter \cup { <<x>> \o q : x \in S, q \in { r \in shorter : Len(r) = n - 1 } }

\* Branch names are a prefix, a ticket, a DEV segment and a description, each
\* of which may be missing.
BranchPrefixes ==
    WipHackPrefixes
    \cup { <<>>, HotfixWord \o <<"-">>, HotfixWord \o <<"/">>, ProjPrefix,
           <<"W", "i", "p", "-">> }

BranchTickets == { <<>>, PrnjPrefix \o <<"1">>, PrnjPrefix \o <<"1", "2">> }

BranchDevs == { <<>>, DashDev, DashDev \o <<"-", "2">> }

BranchDescriptions == { <<>>, <<"-">>, <<"-", "x">>, <<"-", "2", "x">> }

BranchNames ==
    { p \o t \o d \o e :
        p \in BranchPrefixes, t \in BranchTickets, d \in BranchDevs,
        e \in BranchDescriptions }

\* one branch name of each shape, for the runs over every message text
SampleBranchNames ==
    { <<"w", "i", "p", "-", "x">>,
      <<"w", "i", "p", "/">> \o ProjPrefix \o PrnjPrefix \o <<"1", "-", "x">>,
      <<"h", "o", "t", "f", "i", "x", "/", "P", "R", "N", "J", "-", "1", "-", "x">>,
      <<"h", "o", "t", "f", "i", "x", "-", "P", "R", "N", "J", "-", "1", "-", "D", "E", "V", "-", "2", "-", "x">>,
      <<"p", "r", "o", "j", "/", "P", "R", "N", "J", "-", "1", "-", "x">>,
      <<"p", "r", "o", "j", "/", "P", "R", "N", "J", "-", "1", "-", "D", "E", "V", "-", "2", "-", "x">>,
      <<"p", "r", "o", "j", "/", "P", "R", "N", "J", "-", "1", "-", "D", "E", "V", "-", "x">>,
      <<"P", "R", "N", "J", "-", "1", "-", "x">>,
      <<"P", "R", "N", "J", "-", "1", "-", "D", "E", "V", "-", "2", "-", "x">>,
      <<"P", "R", "N", "J", "-", "1", "-", "D", "E", "V", "-", "x">>,
      <<"P", "R", "N", "J", "-", "1", "2", "-", "x">> }

Subjects == { <<"s">>, PrnjPrefix \o <<"1">> }

\* the lines a message is made of: text, the identifiers at the start of a line
\* and inside one, a line that starts with the DEV marker, the cut line
Lines ==
    { <<"b">>,
      PrnjPrefix \o <<"1">>,
      DevWord \o <<"-", "2">>,
      DevWord \o <<"x">>,
      <<"a", " ">> \o PrnjPrefix \o <<"1", " ">> \o DevWord \o <<"-", "2">>,
      Scissors }

\* the text below the subject: up to n lines, the last one ended by a newline or not
Belows(n) ==
    { Join(ls, <<NL>>) \o e :
        ls \in SeqsUpTo(Lines, n), e \in { <<>>, <<NL>> } }

\* a subject alone, or a subject, a newline and the text below it
MessagesOf(n) ==
    Subjects \cup { s \o <<NL>> \o b : s \in Subjects, b \in Belows(n) }

Messages == MessagesOf(MaxLines)

\* the messages of the test suite's shape: a subject, a blank line, a body
SampleMessages ==
    { <<"s">>,
      <<"s", NL, NL, "b", NL>>,
      <<"s", NL, NL, "b", NL>> \o PrnjPrefix \o <<"1", NL>>,
      <<"s", NL, NL>> \o DevWord \o <<"-", "2", NL>> \o PrnjPrefix \o <<"1", "2", NL>>,
      <<"s", NL, NL, "b", NL>> \o Scissors \o <<NL>> \o PrnjPrefix \o <<"1", NL>> }

\* get_branch tabulated over the branch names of the model
BranchOf == [s \in BranchNames \cup SampleBranchNames |-> GetBranch(s)]

-----------------------------------------------------------------------------
(* append_to_commit_msg                                                    *)

\* the early return of append_to_commit_msg: nothing is appended
NothingToAppend(branch, commit_msg) ==
    \/ commit_msg.prnj_found /\ ~branch.is_proj
    \/ commit_msg.dev_found

\* Parts without the test that PRNJ is already in the body
PartsAlwaysPrnj(branch, commit_msg) ==
    (IF branch.dev # None /\ ~IsDevWithoutNumber(branch) /\ ~commit_msg.dev_found
     THEN <<branch.dev>> ELSE <<>>)
    \o (IF branch.prnj # None THEN <<branch.prnj>> ELSE <<>>)

\* parts: the identifiers to append, DEV before PRNJ
Parts(branch, commit_msg) ==
    (IF branch.dev # None /\ ~IsDevWithoutNumber(branch) /\ ~commit_msg.dev_found
     THEN <<branch.dev>> ELSE <<>>)
    \o (IF branch.prnj # None /\ ~commit_msg.prnj_found
        THEN <<branch.prnj>> ELSE <<>>)

\* Rewrite with the identifiers printed last, below the text from the cut line
RewriteAtEnd(commit_msg, parts) ==
    commit_msg.subject \o <<NL>>
    \o commit_msg.body \o <<NL>>
    \o commit_msg.rest \o <<NL>>
    \o <<NL>> \o Join(parts, <<NL>>) \o <<NL>>

\* the four print() calls that rewrite the message file
Rewrite(commit_msg, parts) ==
    commit_msg.subject \o <<NL>>
    \o commit_msg.body \o <<NL>>
    \o <<NL>> \o Join(parts, <<NL>>) \o <<NL>>
    \o commit_msg.rest \o <<NL>>

\* the message file is left as it is
Untouched(text) == [raised |-> "none", file |-> text, wrote |-> FALSE]

\* append_to_commit_msg from `if not parts` on
WriteParts(commit_msg, parts, text) ==
    IF parts = <<>> THEN Untouched(text)
    ELSE [raised |-> "none", file |-> Rewrite(commit_msg, parts), wrote |-> TRUE]

\* append_to_commit_msg after validate_commit_msg_body returned g and commit_msg
AppendParts(branch, commit_msg, text) ==
    IF branch.is_wip_hack THEN Untouched(text)
    ELSE IF NothingToAppend(branch, commit_msg) THEN Untouched(text)
    ELSE WriteParts(commit_msg, Parts(branch, commit_msg), text)

\* append_to_commit_msg with g the outcome of get_branch
AppendOn(g, text) ==
    IF g.raised # "none"
    THEN [raised |-> g.raised, file |-> text, wrote |-> FALSE]
    ELSE AppendParts(g.branch, CommitMessage(g.branch, text), text)

\* append_to_commit_msg on branch name s and message file content text:
\* the exception raised, the content of the file afterwards, whether it was written
AppendToCommitMsg(s, text) == AppendOn(BranchOf[s], text)

-----------------------------------------------------------------------------
(* The two commands                                                        *)

\* the two checks at the end of check_message: the ClickException raised
\* ("prnj": Did not find PRNJ; "dev": Did not find DEV), or "none"
ValidateIds(branch, commit_msg) ==
    IF branch.is_wip_hack THEN "none"
    ELSE IF ~commit_msg.prnj_found THEN "prnj"
    ELSE IF branch.is_proj
            /\ ~(IsDevWithoutNumber(branch) \/ commit_msg.dev_found)
    THEN "dev"
    ELSE "none"

\* check_message from validate_commit_msg_body on, with g the outcome of get_branch
ValidateOn(g, text) ==
    IF g.raised # "none" THEN g.raised
    ELSE ValidateIds(g.branch, CommitMessage(g.branch, text))

\* check_message from validate_commit_msg_body on
Validate(s, text) == ValidateOn(BranchOf[s], text)

\* check_message after the append step, whose outcome is a
AfterAppend(s, a) ==
    IF a.raised # "none" THEN a
    ELSE [raised |-> Validate(s, a.file), file |-> a.file, wrote |-> a.wrote]

\* check_message: the outcome for a branch name, a message file content, the
\* merge-like signal and the auto-append toggle
CheckMessageRun(s, text, merge, auto) ==
    IF merge THEN Untouched(text)
    ELSE IF auto THEN AfterAppend(s, AppendToCommitMsg(s, text))
    ELSE AfterAppend(s, Untouched(text))

\* check_branch: the exception raised ("none" when none)
CheckBranchRun(s, merge) == IF merge THEN "none" ELSE BranchOf[s].raised

-----------------------------------------------------------------------------
(* The states and the steps                                                *)

Init ==
    /\ \/ branchName \in BranchNames /\ file \in SampleMessages
       \/ branchName \in SampleBranchNames /\ file \in Messages
    /\ lastCmd = "none"
    /\ mergeLike = FALSE
    /\ autoAppend = TRUE
    /\ exitCode = 0
    /\ raised = "none"
    /\ wrote = FALSE
    /\ fileBefore = file

CheckBranch ==
    \E merge \in BOOLEAN :
        \E r \in { CheckBranchRun(branchName, merge) } :
            /\ lastCmd' = "check-branch"
            /\ mergeLike' = merge
            /\ raised' = r
            /\ exitCode' = IF r = "none" THEN 0 ELSE 1
            /\ wrote' = FALSE
            /\ fileBefore' = file
            /\ UNCHANGED <<branchName, file, autoAppend>>

CheckMessage ==
    \E merge \in BOOLEAN, auto \in BOOLEAN :
        \E r \in { CheckMessageRun(branchName, file, merge, auto) } :
            /\ lastCmd' = "check-message"
            /\ mergeLike' = merge
            /\ autoAppend' = auto
            /\ raised' = r.raised
            /\ exitCode' = IF r.raised = "none" THEN 0 ELSE 1
            /\ wrote' = r.wrote
            /\ fileBefore' = file
            /\ file' = r.file
            /\ UNCHANGED branchName

Next == CheckBranch \/ CheckMessage


Spec == Init /\ [][Next]_vars

-----------------------------------------------------------------------------
(* The vocabulary of the properties                                        *)

\* the tickets and descriptions branch names of the model are built from
Tickets == BranchTickets \ { <<>> }
Descriptions == { e \in BranchDescriptions : Len(e) >= 2 }
DevNumbered == DashDev \o <<"-", "2">>
DevId == DevWord \o <<"-", "2">>
HotfixPrefixes == { HotfixWord \o <<"-">>, HotfixWord \o <<"/">> }

\* proj/PRNJ-<n>-<description>
ProjParentNames(t) == { ProjPrefix \o t \o e : e \in Descriptions }
\* proj/PRNJ-<n>-DEV-<m>-<description>
ProjDevNames(t) == { ProjPrefix \o t \o DevNumbered \o e : e \in Descriptions }
\* proj/PRNJ-<n>-DEV-<description>
ProjMarkerNames(t) == { ProjPrefix \o t \o DashDev \o e : e \in Descriptions }
\* hotfix/PRNJ-<n>..., hotfix-PRNJ-<n>..., with or without a DEV segment
HotfixNames(t) ==
    { h \o t \o d \o e : h \in HotfixPrefixes, d \in BranchDevs, e \in Descriptions }
\* PRNJ-<n>-<description>, PRNJ-<n>-DEV-<m>-<description>, PRNJ-<n>-DEV-<description>
PlainNames(t) == { t \o e : e \in Descriptions }
PlainDevNames(t) == { t \o DevNumbered \o e : e \in Descriptions }
PlainMarkerNames(t) == { t \o DashDev \o e : e \in Descriptions }
\* PRNJ-<n>, PRNJ-<n>-DEV, PRNJ-<n>-DEV-<m>, bare or behind hotfix-, hotfix/ or proj/
StubNames ==
    { h \o t \o d :
        h \in HotfixPrefixes \cup { <<>>, ProjPrefix }, t \in Tickets, d \in BranchDevs }

\* id starts a line of text
StartsLine(id, text) ==
    \E i \in 1..Len(text) : (i = 1 \/ text[i - 1] = NL) /\ At(text, i, id)

\* a line of text is exactly DEV, or starts with DEV-
HasDevLine(text) ==
    \/ StartsLine(DevWord \o <<"-">>, text)
    \/ StartsLine(DevWord \o <<NL>>, text)
    \/ \E i \in 1..Len(text) :
          (i = 1 \/ text[i - 1] = NL) /\ At(text, i, DevWord)
          /\ i + Len(DevWord) = Len(text) + 1

\* the split of a message text into subject, body and the text from the cut line
Split(text) == CommitMessage(Branch(<<>>, FALSE, FALSE, FALSE, None, None), text)
BodyOf(text) == Split(text).body
RestOf(text) == Split(text).rest

\* the message file as check-message rewrites it when it appends the lines ids
Appended(text, ids) == Rewrite(Split(text), ids)

\* the identifiers among ids that start no line of the body of text
Missing(ids, text) == SelectSeq(ids, LAMBDA id : ~StartsLine(id, BodyOf(text)))

\* the last invocation was check-message, outside a merge-like state
RanCheckMessage == lastCmd = "check-message" /\ ~mergeLike
\* ... and with auto-append enabled
RanAutoAppend == RanCheckMessage /\ autoAppend

\* get_branch returned a hotfix, project-dev or plain-ticket branch
Classified ==
    BranchOf[branchName].raised = "none" /\ ~BranchOf[branchName].branch.is_wip_hack

-----------------------------------------------------------------------------
(* The properties                                                          *)

\* C1: on every branch that get_branch classifies as a hotfix, project-dev or
\* plain-ticket branch, check-message with auto-append enabled and outside a
\* merge-like state ends in success, and the body of the message then has a
\* line starting with the PRNJ id of the branch and, on a project-dev branch
\* with a numbered DEV id, a line starting with that DEV id.
C1_AutoAppendEndsInSuccess ==
    (RanAutoAppend /\ Classified) =>
        LET b == BranchOf[branchName].branch
        IN  /\ exitCode = 0
            /\ StartsLine(b.prnj, BodyOf(file))
            /\ (b.is_proj /\ b.dev # None /\ b.dev # DevWord)
                   => StartsLine(b.dev, BodyOf(file))

\* C2: on proj/PRNJ-<n>-DEV-<m>-<description> the append step adds each of
\* DEV-<m> and PRNJ-<n> that starts no line of the body, each as a line of its
\* own after the original body, DEV-<m> before PRNJ-<n>; it adds nothing when
\* both are there.
C2_ProjDevAppendsEachMissingId ==
    \A t \in Tickets :
        (RanAutoAppend /\ branchName \in ProjDevNames(t)) =>
            LET missing == Missing(<<DevId, t>>, fileBefore)
            IN  file = IF missing = <<>> THEN fileBefore
                       ELSE Appended(fileBefore, missing)

\* C3 as stated: on proj/PRNJ-<n>-<description> every invocation of check-branch
\* and of check-message fails and leaves the message file unchanged.
C3_ProjectParentAlwaysFails ==
    \A t \in Tickets :
        (lastCmd # "none" /\ branchName \in ProjParentNames(t)) =>
            exitCode # 0 /\ file = fileBefore

\* C3 amended: on proj/PRNJ-<n>-<description> check-branch and check-message
\* fail, with the project branch error, exactly when the commit is not in a
\* merge-like state (in one they exit 0 without looking at the branch); the
\* message file is never written.
C3_ProjectParentFailsOutsideMerge ==
    \A t \in Tickets :
        (lastCmd # "none" /\ branchName \in ProjParentNames(t)) =>
            /\ file = fileBefore
            /\ ~wrote
            /\ mergeLike => (exitCode = 0 /\ raised = "none")
            /\ ~mergeLike => (exitCode = 1 /\ raised = "project")

C3_Witness ==
    /\ branchName \in ProjParentNames(PrnjPrefix \o <<"1">>)
    /\ RanAutoAppend
    /\ exitCode = 1
    /\ ~StartsLine(PrnjPrefix \o <<"1">>, BodyOf(file))

\* C4: on proj/PRNJ-<n>-DEV-<description> check-message adds PRNJ-<n>, and only
\* that, when no line of the body starts with it, and then succeeds; a message
\* without a line that is DEV or starts with DEV- has none afterwards.
C4_ProjMarkerAppendsOnlyPrnj ==
    \A t \in Tickets :
        (RanAutoAppend /\ branchName \in ProjMarkerNames(t)) =>
            /\ exitCode = 0
            /\ file = IF StartsLine(t, BodyOf(fileBefore)) THEN fileBefore
                      ELSE Appended(fileBefore, <<t>>)
            /\ ~HasDevLine(fileBefore) => ~HasDevLine(file)

\* C5: on a hotfix branch, with or without a DEV segment in its name, validation
\* never demands a DEV id and the only identifier line check-message adds is
\* PRNJ-<n>.
C5_HotfixAddsOnlyPrnj ==
    \A t \in Tickets :
        (RanCheckMessage /\ branchName \in HotfixNames(t)) =>
            /\ raised # "dev"
            /\ wrote => file = Appended(fileBefore, <<t>>)

\* C6: on an unprefixed branch the DEV requirement mirrors the name: on
\* PRNJ-<n>-<description> only PRNJ-<n> is appended; on
\* PRNJ-<n>-DEV-<m>-<description> check-message appends DEV-<m> when no line of
\* the body starts with it and succeeds only with such a line in the body; on
\* PRNJ-<n>-DEV-<description> no DEV id is demanded.
C6_PlainDevMirrorsName ==
    \A t \in Tickets :
        /\ (RanCheckMessage /\ branchName \in PlainNames(t)) =>
               /\ raised # "dev"
               /\ wrote => file = Appended(fileBefore, <<t>>)
        /\ (RanCheckMessage /\ branchName \in PlainDevNames(t)) =>
               /\ exitCode = 0 => StartsLine(DevId, BodyOf(file))
               /\ autoAppend => StartsLine(DevId, BodyOf(file))
        /\ (RanCheckMessage /\ branchName \in PlainMarkerNames(t)) =>
               raised # "dev"

\* C7: the append step is idempotent: once check-message has run it (auto-append
\* enabled, no merge-like state, get_branch did not raise), running it again on
\* the message file as it now is leaves the file as it is, without writing it.
C7_AppendIdempotent ==
    (RanAutoAppend /\ raised \notin {"standard", "project"}) =>
        LET again == AppendToCommitMsg(branchName, file)
        IN  again.file = file /\ ~again.wrote /\ again.raised = "none"

C7_Witness ==
    /\ RanAutoAppend
    /\ wrote
    /\ file # fileBefore
    /\ RestOf(file) # <<>>
    /\ branchName \in ProjDevNames(PrnjPrefix \o <<"1">>)

\* C8: when the text below the subject holds the cut line, the text from the
\* first cut line on is not scanned for identifiers (validation misses a PRNJ id
\* that starts a line only there, and succeeds only with the id above the cut
\* line), and a rewrite keeps the subject and the body, adds lines after the
\* body only, and reproduces the text from the cut line on as one block after
\* them (print() ends it with a newline).
C8_CutLinePreserved ==
    (RanCheckMessage /\ Classified /\ RestOf(fileBefore) # <<>>) =>
        LET b == BranchOf[branchName].branch
            old == Split(fileBefore)
            new == Split(file)
        IN  /\ ~autoAppend =>
                   (raised = "prnj" <=> ~StartsLine(b.prnj, old.body))
            /\ exitCode = 0 => StartsLine(b.prnj, new.body)
            /\ ~wrote => file = fileBefore
            /\ wrote =>
                   /\ new.subject = old.subject
                   /\ Len(new.body) > Len(old.body)
                   /\ SubSeq(new.body, 1, Len(old.body)) = old.body
                   /\ new.rest = old.rest \o <<NL>>

C8_Witness ==
    /\ RanAutoAppend
    /\ Classified
    /\ wrote
    /\ exitCode = 0
    /\ StartsLine(BranchOf[branchName].branch.prnj, RestOf(fileBefore))
    /\ ~StartsLine(BranchOf[branchName].branch.prnj, BodyOf(fileBefore))

\* C9: on a branch whose name starts with wip-, wip/, hack-, hack/, poc- or
\* poc/, whatever follows, get_branch returns a branch without identifiers, and
\* check-branch and check-message succeed without writing the message file.
C9_WipHackAlwaysPasses ==
    (\E p \in WipHackPrefixes : StartsWith(branchName, p)) =>
        /\ BranchOf[branchName].branch.prnj = None
        /\ BranchOf[branchName].branch.dev = None
        /\ lastCmd # "none" =>
               exitCode = 0 /\ raised = "none" /\ ~wrote /\ file = fileBefore

C9_Witness ==
    /\ branchName = <<"w", "i", "p", "/">> \o ProjPrefix \o PrnjPrefix \o <<"1", "-", "x">>
    /\ RanAutoAppend
    /\ exitCode = 0
    /\ ~StartsLine(PrnjPrefix \o <<"1">>, BodyOf(file))

\* C10: a branch name that holds identifiers but no description (PRNJ-<n>,
\* PRNJ-<n>-DEV, PRNJ-<n>-DEV-<m>, bare or behind hotfix-, hotfix/ or proj/) is
\* rejected as a name that does not follow the standard.
C10_StubsAreMalformed ==
    (lastCmd = "check-branch" /\ ~mergeLike /\ branchName \in StubNames) =>
        raised = "standard"

====
